---- MODULE Spec2Model ----
(***************************************************************************)
(* State-machine model of the ncfs conversion scripts                      *)
(*   convert/hdf2fits-column.py   convert/hdf2fits-dataset.py              *)
(*   convert/hdf2fits-group.py    convert/hdf2fits-merge.py                *)
(*   convert/npy2fits.py                                                   *)
(* Each script is a straight-line batch job over a directory of files.     *)
(* The state is the directory (the FITS files by name), the input file of  *)
(* each running instance, and each instance's position and local values.   *)
(* One action models one statement of a script that reads or writes a file.*)
(***************************************************************************)
EXTENDS Integers, Sequences, FiniteSets, TLC

\* Bounds of the model.
MaxRows == 2      \* largest row count (axis 0) of an input array
MaxRuns == 2      \* how often one instance is run over the same directory

Procs == {1, 2}   \* script instances; only SpecConc runs the second one

------------------------------------------------------------------------------
(* numpy arrays: the kind (a plain array becomes an IMAGE HDU, a structured *)
(* array a BINTABLE HDU) and the rows along axis 0.                         *)

NoArr == [kind |-> "NONE", rows |-> <<>>]

\* An array of n rows; the row values start above base, so that arrays kept
\* in different places of a file (and in different files) differ in value.
Arr(kind, base, n) == [kind |-> kind, rows |-> [j \in 1..n |-> base + j]]

\* The arrays a dataset at a given place may hold (or none: no such dataset):
\* plain arrays of every row count, and a structured array.
Slot(base) ==
  {NoArr} \cup {Arr("IMAGE", base, n) : n \in 1..MaxRows}
          \cup {Arr("BINTABLE", base, MaxRows)}

\* np.flip(dat, axis=0)
FlipId(rows) == rows
Flip(rows) == [j \in 1..Len(rows) |-> rows[Len(rows) + 1 - j]]

------------------------------------------------------------------------------
(* The HDF5 input file: root datasets x and y, an optional group g with    *)
(* datasets x and y and an optional sub-group s; desc is the enumeration    *)
(* order of the members (by name, or the reverse).                          *)

NoFile ==
  [exists |-> FALSE, x |-> NoArr, y |-> NoArr, gx |-> NoArr, gy |-> NoArr,
   hasG |-> FALSE, hasS |-> FALSE, desc |-> FALSE]

H5Files(p) ==
  LET off == 100 * (p - 1) IN
  {NoFile} \cup
  {f \in [exists : {TRUE}, x : Slot(off), y : Slot(off + 10),
          gx : Slot(off + 20), gy : Slot(off + 30),
          hasG : BOOLEAN, hasS : BOOLEAN, desc : BOOLEAN] :
     ~f.hasG => (f.gx = NoArr /\ f.gy = NoArr /\ ~f.hasS)}

Missing == [type |-> "missing", arr |-> NoArr]
GroupNode == [type |-> "group", arr |-> NoArr]
DatasetNode(a) == IF a = NoArr THEN Missing ELSE [type |-> "dataset", arr |-> a]

\* h5f[path]: a path is resolved from the root of the file.
H5Get(f, path) ==
  CASE path = "/"   -> GroupNode
    [] path = "x"   -> DatasetNode(f.x)
    [] path = "y"   -> DatasetNode(f.y)
    [] path = "g"   -> IF f.hasG THEN GroupNode ELSE Missing
    [] path = "g/x" -> DatasetNode(f.gx)
    [] path = "g/y" -> DatasetNode(f.gy)
    [] path = "g/s" -> IF f.hasS THEN GroupNode ELSE Missing
    [] OTHER        -> Missing

\* The path of member key of group grp.
ChildPath(grp, key) ==
  CASE grp = "/" -> key
    [] grp = "g" /\ key = "x" -> "g/x"
    [] grp = "g" /\ key = "y" -> "g/y"
    [] grp = "g" /\ key = "s" -> "g/s"
    [] OTHER -> "nowhere"

Members(f, grp) ==
  IF grp = "/"
  THEN {k \in {"x", "y", "g"} : H5Get(f, k).type # "missing"}
  ELSE {k \in {"x", "y", "s"} : H5Get(f, ChildPath(grp, k)).type # "missing"}

\* group.keys(): the direct members of the group, datasets and sub-groups
\* alike, in the order the file enumerates them.
Keys(f, grp) ==
  SelectSeq(IF f.desc THEN <<"y", "x", "s", "g">> ELSE <<"g", "s", "x", "y">>,
            LAMBDA k : k \in Members(f, grp))

------------------------------------------------------------------------------
(* FITS files: a sequence of HDUs. rows is an image or structured-array     *)
(* payload, cols the columns of a table written by astropy.table.           *)

\* fits.PrimaryHDU()
EmptyPrimary == [xt |-> "PRIMARY", extname |-> "", rows |-> <<>>, cols |-> <<>>]

NoData(h) == h.rows = <<>> /\ h.cols = <<>>

NoHdr == [card0 |-> "", extname |-> ""]

\* hdux.header; hdr[0] is the value of the first card: XTENSION for an
\* extension, SIMPLE for the primary HDU.
HeaderOf(h) ==
  [card0 |-> IF h.xt = "PRIMARY" THEN "SIMPLE" ELSE h.xt, extname |-> h.extname]

\* hdux.data
HduData(h) == [kind |-> h.xt, rows |-> h.rows]

\* The HDU that fits.append builds from data and an optional header.
MakeHdu(a, hd) ==
  IF hd = NoHdr
  THEN [xt |-> a.kind, extname |-> "", rows |-> a.rows, cols |-> <<>>]
  ELSE [xt |-> IF hd.card0 = "SIMPLE" THEN "IMAGE" ELSE hd.card0,
        extname |-> hd.extname, rows |-> a.rows, cols |-> <<>>]

\* A table header with plain array data (or the reverse) is rejected.
HduOk(a, hd) == hd = NoHdr \/ ((hd.card0 = "BINTABLE") <=> (a.kind = "BINTABLE"))

\* The scratch file of hdf2fits-group.py.
TempName == "temp.fits"

FileNames == {"data.fits", "other.fits", TempName}
Absent == [exists |-> FALSE, hdus |-> <<>>]
EmptyDir == [n \in FileNames |-> Absent]

\* A file left by some other run: data in the primary HDU and an extension.
Stale ==
  [exists |-> TRUE,
   hdus |-> <<[xt |-> "PRIMARY", extname |-> "", rows |-> <<91>>, cols |-> <<>>],
              [xt |-> "IMAGE", extname |-> "old", rows |-> <<92, 93>>, cols |-> <<>>]>>]

\* hdu.writeto(name, overwrite=True), hduL.writeto(name, overwrite=True)
WriteToKeep(f, name, hdus) ==
  IF f[name].exists THEN f ELSE [f EXCEPT ![name] = [exists |-> TRUE, hdus |-> hdus]]
WriteTo(f, name, hdus) == [f EXCEPT ![name] = [exists |-> TRUE, hdus |-> hdus]]

\* fits.append(name, data[, header]): a new HDU at the end of an existing
\* file; a missing or empty file is written afresh.
FitsAppendAfresh(f, name, h) ==
  WriteTo(f, name, IF h.xt = "BINTABLE" THEN <<EmptyPrimary, h>>
                   ELSE <<[h EXCEPT !.xt = "PRIMARY"]>>)
FitsAppend(f, name, h) ==
  IF ~f[name].exists \/ f[name].hdus = <<>>
  THEN WriteTo(f, name, IF h.xt = "BINTABLE" THEN <<EmptyPrimary, h>>
                        ELSE <<[h EXCEPT !.xt = "PRIMARY"]>>)
  ELSE [f EXCEPT ![name].hdus = Append(@, h)]

\* hduL[n-1]
FirstHdu(L) == L[1]
LastHdu(L) == L[Len(L)]

\* Lines 68-76 of hdf2fits-dataset.py on the opened list: EXTNAME into the
\* header of the last HDU, and its rows reversed if it is an IMAGE.
Renamed(L, dsname) ==
  LET hdux == LastHdu(L)
      flipped == IF HeaderOf(hdux).card0 = "IMAGE" THEN Flip(hdux.rows) ELSE hdux.rows
  IN  [L EXCEPT ![Len(L)] = [hdux EXCEPT !.extname = dsname, !.rows = flipped]]

\* Lines 67-71 of hdf2fits-group.py: the header of the last HDU of the
\* reopened temp.fits, with EXTNAME entered.
TempHeader(f, dsname) ==
  [HeaderOf(LastHdu(f[TempName].hdus)) EXCEPT !.extname = dsname]

\* Lines 75-77 of hdf2fits-group.py: for an IMAGE header, data becomes the
\* reversed rows of that HDU; otherwise data stays the array that was read.
TempData(f, hdr, data) ==
  IF hdr.card0 = "IMAGE"
  THEN [kind |-> "IMAGE", rows |-> Flip(HduData(LastHdu(f[TempName].hdus)).rows)]
  ELSE data

\* t.write(name, format="fits", overwrite=True)
TableHdu(t) == [xt |-> "BINTABLE", extname |-> "", rows |-> <<>>, cols |-> t]
TableWrite(f, name, t) == WriteTo(f, name, <<EmptyPrimary, TableHdu(t)>>)

\* t[key]=datax is accepted if the table is empty or the lengths agree.
ColumnFits(t, a) == t = <<>> \/ Len(a.rows) = Len(t[1].rows)
AddColumn(t, key, a) == Append(t, [name |-> key, rows |-> a.rows])

------------------------------------------------------------------------------
(* The state.                                                               *)

VARIABLES
  cfg,   \* per instance: the script and its command-line arguments
  h5,    \* per instance: the HDF5 input file (-i)
  npy,   \* per instance: the array in the numpy input file (npy2fits)
  fs,    \* the directory: the FITS files by name
  fs0,   \* the directory as it was when the current run started
  loc    \* per instance: position, local values and what the run did so far

vars == <<cfg, h5, npy, fs, fs0, loc>>

Idle == [script |-> "none", ds |-> "", g |-> "", o |-> "other.fits"]

Cfgs ==
  {[script |-> s, ds |-> d, g |-> "", o |-> "data.fits"] :
      s \in {"column", "dataset"}, d \in {"x", "g/x", "g"}}
  \cup {[script |-> "group", ds |-> "", g |-> g, o |-> o] :
          g \in {"/", "g"}, o \in {"data.fits", TempName}}
  \cup {[script |-> "merge", ds |-> "", g |-> g, o |-> "data.fits"] : g \in {"/", "g"}}
  \cup {[script |-> "npy", ds |-> "", g |-> "", o |-> "data.fits"]}

Fresh(pc0) ==
  [pc |-> pc0, err |-> "none", keys |-> <<>>, i |-> 1, data |-> NoArr,
   hdr |-> NoHdr, hduL |-> <<>>, t |-> <<>>, wrote |-> FALSE, nTemp |-> 0,
   handled |-> <<>>, run |-> 1]

\* The scripts that read one dataset are run on files whose other members
\* are left out: x, and possibly g with g/x.
OnlyX(f) == f.y = NoArr /\ f.gy = NoArr /\ ~f.hasS /\ ~f.desc

\* One instance of any script, over a directory that is empty or holds an
\* output file and a scratch file left over from another run.
Init ==
  \E c \in Cfgs, f \in H5Files(1), a \in Slot(0), prior \in {Absent, Stale} :
    /\ (c.script = "npy") => f = NoFile
    /\ (c.script # "npy") => a = NoArr
    /\ (c.script \in {"column", "dataset"}) => OnlyX(f)
    /\ cfg = [p \in Procs |-> IF p = 1 THEN c ELSE Idle]
    /\ h5 = [p \in Procs |-> IF p = 1 THEN f ELSE NoFile]
    /\ npy = [p \in Procs |-> IF p = 1 THEN a ELSE NoArr]
    /\ fs = [EmptyDir EXCEPT ![c.o] = prior, ![TempName] = prior]
    /\ fs0 = fs
    /\ loc = [p \in Procs |-> IF p = 1 THEN Fresh("start") ELSE Fresh("off")]

At(p, script, label) == cfg[p].script = script /\ loc[p].pc = label

\* The instance goes on with the changed local values r.
Step(p, r) == /\ loc' = [loc EXCEPT ![p] = r]
              /\ UNCHANGED <<cfg, h5, npy, fs0>>

\* An uncaught error ends the script.
Failed(p, e) == [loc[p] EXCEPT !.pc = "failed", !.err = e]

\* h5f[path][:]: the array of a dataset; a missing key and a group both raise.
ReadError(node) == IF node.type = "missing" THEN "key" ELSE "type"

------------------------------------------------------------------------------
(* hdf2fits-group.py                                                        *)

\* lines 51-53: h5f=h5py.File(ifname,"r"); group=h5f[gname]
GroupOpen(p) ==
  /\ At(p, "group", "start")
  /\ UNCHANGED fs
  /\ IF ~h5[p].exists THEN Step(p, Failed(p, "nofile"))
     ELSE IF H5Get(h5[p], cfg[p].g).type # "group" THEN Step(p, Failed(p, "nogroup"))
     ELSE Step(p, [loc[p] EXCEPT !.pc = "g57", !.keys = Keys(h5[p], cfg[p].g)])

\* lines 56-57: hdu0.writeto(ofname,overwrite=True)
GroupPrimary(p) ==
  /\ At(p, "group", "g57")
  /\ \E ok \in BOOLEAN :
       IF ok
       THEN /\ fs' = WriteTo(fs, cfg[p].o, <<EmptyPrimary>>)
            /\ Step(p, [loc[p] EXCEPT !.pc = "g60", !.wrote = TRUE])
       ELSE UNCHANGED fs /\ Step(p, Failed(p, "io"))

\* lines 60-62: the next key of group.keys(), and data=h5f[dsname][:]
GroupRead(p) ==
  /\ At(p, "group", "g60")
  /\ UNCHANGED fs
  /\ IF loc[p].i > Len(loc[p].keys) THEN Step(p, [loc[p] EXCEPT !.pc = "done"])
     ELSE LET node == H5Get(h5[p], loc[p].keys[loc[p].i]) IN
          IF node.type # "dataset" THEN Step(p, Failed(p, ReadError(node)))
          ELSE Step(p, [loc[p] EXCEPT !.pc = "g63", !.data = node.arr])

\* line 63: hdu0.writeto("temp.fits",overwrite=True)
GroupTempPrimary(p) ==
  /\ At(p, "group", "g63")
  /\ \E ok \in BOOLEAN :
       IF ok
       THEN /\ fs' = WriteTo(fs, TempName, <<EmptyPrimary>>)
            /\ Step(p, [loc[p] EXCEPT !.pc = "g64", !.nTemp = @ + 1])
       ELSE UNCHANGED fs /\ Step(p, Failed(p, "io"))

\* line 64: fits.append("temp.fits",data)
GroupTempAppend(p) ==
  /\ At(p, "group", "g64")
  /\ \E ok \in BOOLEAN :
       IF ok
       THEN /\ fs' = FitsAppend(fs, TempName, MakeHdu(loc[p].data, NoHdr))
            /\ Step(p, [loc[p] EXCEPT !.pc = "g67"])
       ELSE UNCHANGED fs /\ Step(p, Failed(p, "io"))

\* lines 67-77: reopen temp.fits, take the header of its last HDU, enter
\* EXTNAME, and for an IMAGE replace data by the reversed rows of that HDU.
GroupReopen(p) ==
  /\ At(p, "group", "g67")
  /\ UNCHANGED fs
  /\ IF ~fs[TempName].exists \/ fs[TempName].hdus = <<>>
     THEN Step(p, Failed(p, "io"))
     ELSE LET hdr == TempHeader(fs, loc[p].keys[loc[p].i])
          IN  Step(p, [loc[p] EXCEPT !.pc = "g80", !.hdr = hdr,
                                      !.data = TempData(fs, hdr, @)])

\* line 80: fits.append(ofname,data,header=hdr), and on to the next key
GroupAppend(p) ==
  /\ At(p, "group", "g80")
  /\ IF ~HduOk(loc[p].data, loc[p].hdr)
     THEN UNCHANGED fs /\ Step(p, Failed(p, "type"))
     ELSE \E ok \in BOOLEAN :
       IF ok
       THEN /\ fs' = FitsAppend(fs, cfg[p].o, MakeHdu(loc[p].data, loc[p].hdr))
            /\ Step(p, [loc[p] EXCEPT
                  !.pc = "g60", !.i = @ + 1, !.data = NoArr, !.hdr = NoHdr,
                  !.handled = Append(@, loc[p].keys[loc[p].i])])
       ELSE UNCHANGED fs /\ Step(p, Failed(p, "io"))

------------------------------------------------------------------------------
(* hdf2fits-dataset.py                                                      *)

\* line 52: h5f=h5py.File(ifname,"r")
DatasetOpen(p) ==
  /\ At(p, "dataset", "start")
  /\ UNCHANGED fs
  /\ IF ~h5[p].exists THEN Step(p, Failed(p, "nofile"))
     ELSE Step(p, [loc[p] EXCEPT !.pc = "d57"])

\* lines 56-57: hdu0.writeto(ofname,overwrite=True)
DatasetPrimary(p) ==
  /\ At(p, "dataset", "d57")
  /\ \E ok \in BOOLEAN :
       IF ok
       THEN /\ fs' = WriteTo(fs, cfg[p].o, <<EmptyPrimary>>)
            /\ Step(p, [loc[p] EXCEPT !.pc = "d61", !.wrote = TRUE])
       ELSE UNCHANGED fs /\ Step(p, Failed(p, "io"))

\* line 61: data=h5f[dsname][:]
DatasetRead(p) ==
  /\ At(p, "dataset", "d61")
  /\ UNCHANGED fs
  /\ LET node == H5Get(h5[p], cfg[p].ds) IN
     IF node.type # "dataset" THEN Step(p, Failed(p, ReadError(node)))
     ELSE Step(p, [loc[p] EXCEPT !.pc = "d62", !.data = node.arr])

\* line 62: fits.append(ofname,data)
DatasetAppend(p) ==
  /\ At(p, "dataset", "d62")
  /\ \E ok \in BOOLEAN :
       IF ok
       THEN /\ fs' = FitsAppend(fs, cfg[p].o, MakeHdu(loc[p].data, NoHdr))
            /\ Step(p, [loc[p] EXCEPT !.pc = "d65"])
       ELSE UNCHANGED fs /\ Step(p, Failed(p, "io"))

\* lines 65-76: reopen the output, EXTNAME and the flip on the list in memory
DatasetReopen(p) ==
  /\ At(p, "dataset", "d65")
  /\ UNCHANGED fs
  /\ IF ~fs[cfg[p].o].exists \/ fs[cfg[p].o].hdus = <<>>
     THEN Step(p, Failed(p, "io"))
     ELSE Step(p, [loc[p] EXCEPT !.pc = "d79",
                                 !.hduL = Renamed(fs[cfg[p].o].hdus, cfg[p].ds)])

\* line 79: hduL.writeto(ofname,overwrite=True)
DatasetRewrite(p) ==
  /\ At(p, "dataset", "d79")
  /\ \E ok \in BOOLEAN :
       IF ok
       THEN /\ fs' = WriteTo(fs, cfg[p].o, loc[p].hduL)
            /\ Step(p, [loc[p] EXCEPT !.pc = "done", !.hduL = <<>>, !.data = NoArr,
                                      !.handled = <<cfg[p].ds>>])
       ELSE UNCHANGED fs /\ Step(p, Failed(p, "io"))

------------------------------------------------------------------------------
(* hdf2fits-merge.py                                                        *)

\* lines 52-58: h5f=h5py.File(ifname,"r"); group=h5f[gname]; t=Table()
MergeOpen(p) ==
  /\ At(p, "merge", "start")
  /\ UNCHANGED fs
  /\ IF ~h5[p].exists THEN Step(p, Failed(p, "nofile"))
     ELSE IF H5Get(h5[p], cfg[p].g).type # "group" THEN Step(p, Failed(p, "nogroup"))
     ELSE Step(p, [loc[p] EXCEPT !.pc = "m61", !.keys = Keys(h5[p], cfg[p].g)])

\* lines 61-64: the next key; datax=h5f[key][:]; t[key]=datax
MergeColumn(p) ==
  /\ At(p, "merge", "m61")
  /\ UNCHANGED fs
  /\ IF loc[p].i > Len(loc[p].keys) THEN Step(p, [loc[p] EXCEPT !.pc = "m67"])
     ELSE LET key == loc[p].keys[loc[p].i]
              node == H5Get(h5[p], key) IN
          IF node.type # "dataset" THEN Step(p, Failed(p, ReadError(node)))
          ELSE IF ~ColumnFits(loc[p].t, node.arr) THEN Step(p, Failed(p, "shape"))
          ELSE Step(p, [loc[p] EXCEPT !.i = @ + 1,
                                      !.t = AddColumn(@, key, node.arr),
                                      !.handled = Append(@, key)])

\* line 67: t.write(ofname,format="fits",overwrite=True)
MergeWrite(p) ==
  /\ At(p, "merge", "m67")
  /\ \E ok \in BOOLEAN :
       IF ok
       THEN /\ fs' = TableWrite(fs, cfg[p].o, loc[p].t)
            /\ Step(p, [loc[p] EXCEPT !.pc = "done", !.wrote = TRUE, !.t = <<>>])
       ELSE UNCHANGED fs /\ Step(p, Failed(p, "io"))

------------------------------------------------------------------------------
(* hdf2fits-column.py                                                       *)

\* lines 53-56: h5f=h5py.File(ifname,"r"); t=Table()
ColumnOpen(p) ==
  /\ At(p, "column", "start")
  /\ UNCHANGED fs
  /\ IF ~h5[p].exists THEN Step(p, Failed(p, "nofile"))
     ELSE Step(p, [loc[p] EXCEPT !.pc = "k60"])

\* lines 60-61: datax=h5f[dsname][:]; t[dsname]=datax
ColumnAdd(p) ==
  /\ At(p, "column", "k60")
  /\ UNCHANGED fs
  /\ LET node == H5Get(h5[p], cfg[p].ds) IN
     IF node.type # "dataset" THEN Step(p, Failed(p, ReadError(node)))
     ELSE Step(p, [loc[p] EXCEPT !.pc = "k64",
                                 !.t = AddColumn(@, cfg[p].ds, node.arr),
                                 !.handled = <<cfg[p].ds>>])

\* line 64: t.write(ofname,format="fits",overwrite=True)
ColumnWrite(p) ==
  /\ At(p, "column", "k64")
  /\ \E ok \in BOOLEAN :
       IF ok
       THEN /\ fs' = TableWrite(fs, cfg[p].o, loc[p].t)
            /\ Step(p, [loc[p] EXCEPT !.pc = "done", !.wrote = TRUE, !.t = <<>>])
       ELSE UNCHANGED fs /\ Step(p, Failed(p, "io"))

------------------------------------------------------------------------------
(* npy2fits.py                                                              *)

\* line 46: data=np.load(ifname)
NpyLoad(p) ==
  /\ At(p, "npy", "start")
  /\ UNCHANGED fs
  /\ IF npy[p] = NoArr THEN Step(p, Failed(p, "nofile"))
     ELSE Step(p, [loc[p] EXCEPT !.pc = "n51", !.data = npy[p]])

\* lines 50-51: hdu0.writeto(ofname,overwrite=True)
NpyPrimary(p) ==
  /\ At(p, "npy", "n51")
  /\ \E ok \in BOOLEAN :
       IF ok
       THEN /\ fs' = WriteTo(fs, cfg[p].o, <<EmptyPrimary>>)
            /\ Step(p, [loc[p] EXCEPT !.pc = "n54", !.wrote = TRUE])
       ELSE UNCHANGED fs /\ Step(p, Failed(p, "io"))

\* line 54: fits.append(ofname,data)
NpyAppend(p) ==
  /\ At(p, "npy", "n54")
  /\ \E ok \in BOOLEAN :
       IF ok
       THEN /\ fs' = FitsAppend(fs, cfg[p].o, MakeHdu(loc[p].data, NoHdr))
            /\ Step(p, [loc[p] EXCEPT !.pc = "done", !.data = NoArr])
       ELSE UNCHANGED fs /\ Step(p, Failed(p, "io"))

------------------------------------------------------------------------------
(* Running a script again with the same arguments over the directory the    *)
(* last run left (a run that the file system stopped is not repeated).      *)

Ended(p) == loc[p].pc \in {"done", "failed"}

Rerun(p) ==
  /\ Ended(p)
  /\ loc[p].err # "io"
  /\ loc[p].run < MaxRuns
  /\ loc' = [loc EXCEPT ![p] = [Fresh("start") EXCEPT !.run = loc[p].run + 1]]
  /\ fs0' = fs
  /\ UNCHANGED <<cfg, h5, npy, fs>>

------------------------------------------------------------------------------
(* Each script as one function of the directory: the directory a whole run  *)
(* leaves when the file system refuses nothing.                             *)

\* hdf2fits-dataset.py, lines 52-79
RunDataset(f, h, ds, o) ==
  IF ~h.exists THEN f
  ELSE LET f1 == WriteTo(f, o, <<EmptyPrimary>>)
           node == H5Get(h, ds) IN
       IF node.type # "dataset" THEN f1
       ELSE LET f2 == FitsAppend(f1, o, MakeHdu(node.arr, NoHdr)) IN
            WriteTo(f2, o, Renamed(f2[o].hdus, ds))

\* hdf2fits-group.py, lines 60-80, from the j-th key on
RECURSIVE GroupLoop(_, _, _, _, _)
GroupLoop(f, h, keys, j, o) ==
  IF j > Len(keys) THEN f
  ELSE LET node == H5Get(h, keys[j]) IN
       IF node.type # "dataset" THEN f
       ELSE LET f1 == WriteTo(f, TempName, <<EmptyPrimary>>)
                f2 == FitsAppend(f1, TempName, MakeHdu(node.arr, NoHdr))
                hdr == TempHeader(f2, keys[j])
                data == TempData(f2, hdr, node.arr) IN
            IF ~HduOk(data, hdr) THEN f2
            ELSE GroupLoop(FitsAppend(f2, o, MakeHdu(data, hdr)), h, keys, j + 1, o)

\* hdf2fits-group.py, lines 51-80
RunGroup(f, h, g, o) ==
  IF ~h.exists \/ H5Get(h, g).type # "group" THEN f
  ELSE GroupLoop(WriteTo(f, o, <<EmptyPrimary>>), h, Keys(h, g), 1, o)

\* hdf2fits-merge.py, lines 61-64, from the j-th key on
RECURSIVE MergeLoop(_, _, _, _)
MergeLoop(t, h, keys, j) ==
  IF j > Len(keys) THEN [ok |-> TRUE, t |-> t]
  ELSE LET node == H5Get(h, keys[j]) IN
       IF node.type # "dataset" \/ ~ColumnFits(t, node.arr) THEN [ok |-> FALSE, t |-> t]
       ELSE MergeLoop(AddColumn(t, keys[j], node.arr), h, keys, j + 1)

\* hdf2fits-merge.py, lines 52-67
RunMerge(f, h, g, o) ==
  IF ~h.exists \/ H5Get(h, g).type # "group" THEN f
  ELSE LET r == MergeLoop(<<>>, h, Keys(h, g), 1) IN
       IF r.ok THEN TableWrite(f, o, r.t) ELSE f

\* hdf2fits-column.py, lines 53-64
RunColumn(f, h, ds, o) ==
  IF ~h.exists \/ H5Get(h, ds).type # "dataset" THEN f
  ELSE TableWrite(f, o, AddColumn(<<>>, ds, H5Get(h, ds).arr))

\* npy2fits.py, lines 46-54
RunNpy(f, a, o) ==
  IF a = NoArr THEN f
  ELSE FitsAppend(WriteTo(f, o, <<EmptyPrimary>>), o, MakeHdu(a, NoHdr))

\* The run of instance p, started in directory f.
Run(f, p) ==
  CASE cfg[p].script = "dataset" -> RunDataset(f, h5[p], cfg[p].ds, cfg[p].o)
    [] cfg[p].script = "group"   -> RunGroup(f, h5[p], cfg[p].g, cfg[p].o)
    [] cfg[p].script = "merge"   -> RunMerge(f, h5[p], cfg[p].g, cfg[p].o)
    [] cfg[p].script = "column"  -> RunColumn(f, h5[p], cfg[p].ds, cfg[p].o)
    [] cfg[p].script = "npy"     -> RunNpy(f, npy[p], cfg[p].o)
    [] OTHER -> f

------------------------------------------------------------------------------
Next ==
  \E p \in {1} :
    \/ GroupOpen(p) \/ GroupPrimary(p) \/ GroupRead(p) \/ GroupTempPrimary(p)
    \/ GroupTempAppend(p) \/ GroupReopen(p) \/ GroupAppend(p)
    \/ DatasetOpen(p) \/ DatasetPrimary(p) \/ DatasetRead(p) \/ DatasetAppend(p)
    \/ DatasetReopen(p) \/ DatasetRewrite(p)
    \/ MergeOpen(p) \/ MergeColumn(p) \/ MergeWrite(p)
    \/ ColumnOpen(p) \/ ColumnAdd(p) \/ ColumnWrite(p)
    \/ NpyLoad(p) \/ NpyPrimary(p) \/ NpyAppend(p)
    \/ Rerun(p)

Spec == Init /\ [][Next]_vars

------------------------------------------------------------------------------
(* Two instances of hdf2fits-group.py in one directory, each with its own   *)
(* input file and output file, sharing temp.fits.                           *)

\* Root-only input files; the second instance converts a single dataset.
ConcFiles(p) ==
  {f \in H5Files(p) : /\ f.exists /\ ~f.hasG /\ ~f.desc /\ f.x # NoArr
                      /\ (p = 2 => f.y = NoArr)}

InitConc ==
  \E f1 \in ConcFiles(1), f2 \in ConcFiles(2) :
    /\ cfg = [p \in Procs |->
                [script |-> "group", ds |-> "", g |-> "/",
                 o |-> IF p = 1 THEN "data.fits" ELSE "other.fits"]]
    /\ h5 = [p \in Procs |-> IF p = 1 THEN f1 ELSE f2]
    /\ npy = [p \in Procs |-> NoArr]
    /\ fs = EmptyDir
    /\ fs0 = fs
    /\ loc = [p \in Procs |-> Fresh("start")]

NextConc ==
  \E p \in Procs :
    \/ GroupOpen(p) \/ GroupPrimary(p) \/ GroupRead(p) \/ GroupTempPrimary(p)
    \/ GroupTempAppend(p) \/ GroupReopen(p) \/ GroupAppend(p)

SpecConc == InitConc /\ [][NextConc]_vars

------------------------------------------------------------------------------
(* The claims. In Spec the running instance is instance 1.                  *)

Out(p) == fs[cfg[p].o]
OutHdus(p) == fs[cfg[p].o].hdus

\* s is r with the order of its rows exactly reversed.
IsReversalOf(s, r) ==
  /\ Len(s) = Len(r)
  /\ \A j \in 1..Len(r) : s[j] = r[Len(r) + 1 - j]

\* The extension a dataset named name with array a is to become: rows
\* reversed exactly when the extension is an IMAGE.
IsExtOf(h, a, name) ==
  /\ h.xt = a.kind
  /\ h.extname = name
  /\ h.cols = <<>>
  /\ IF h.xt = "IMAGE" THEN IsReversalOf(h.rows, a.rows) ELSE h.rows = a.rows

\* The keys of the direct members of group grp that are datasets, in the
\* order the file enumerates them, and the array of such a member.
DatasetKeys(f, grp) ==
  SelectSeq(Keys(f, grp), LAMBDA k : H5Get(f, ChildPath(grp, k)).type = "dataset")
MemberArr(f, grp, k) == H5Get(f, ChildPath(grp, k)).arr

GroupFound(p) == h5[p].exists /\ H5Get(h5[p], cfg[p].g).type = "group"

\* C1: for hdf2fits-dataset, hdf2fits-group and npy2fits, in every state
\* after the script's first write to the output file (the states it ends or
\* fails in included), HDU 0 of the output file is a primary HDU without
\* data, and every HDU that carries data sits at index >= 1 (position >= 2
\* of the sequence).
C1_PrimaryFirst ==
  (cfg[1].script \in {"dataset", "group", "npy"} /\ loc[1].wrote) =>
     /\ Out(1).exists
     /\ Len(OutHdus(1)) >= 1
     /\ OutHdus(1)[1].xt = "PRIMARY"
     /\ NoData(OutHdus(1)[1])
     /\ \A j \in 1..Len(OutHdus(1)) :
          /\ ~NoData(OutHdus(1)[j]) => j >= 2
          /\ j >= 2 => OutHdus(1)[j].xt # "PRIMARY"

C1_Witness ==
  /\ At(1, "group", "failed")
  /\ loc[1].wrote
  /\ fs0[cfg[1].o] = Stale
  /\ Len(OutHdus(1)) >= 2

\* C2: hdf2fits-dataset ends with an output file of exactly two HDUs, the
\* empty primary HDU and one extension whose EXTNAME is the dataset name of
\* the command line; its rows are those of the source array, reversed along
\* axis 0 if the extension is an IMAGE and in the source order if not.
C2_DatasetResult ==
  At(1, "dataset", "done") =>
     /\ Len(OutHdus(1)) = 2
     /\ OutHdus(1)[1].xt = "PRIMARY" /\ NoData(OutHdus(1)[1])
     /\ IsExtOf(OutHdus(1)[2], H5Get(h5[1], cfg[1].ds).arr, cfg[1].ds)

C2_Witness ==
  /\ At(1, "dataset", "done")
  /\ cfg[1].ds = "g/x"
  /\ OutHdus(1)[2].xt = "IMAGE"
  /\ Len(OutHdus(1)[2].rows) = 2
  /\ OutHdus(1)[2].rows # h5[1].gx.rows

\* C3: hdf2fits-group and hdf2fits-merge process exactly the keys of the
\* datasets that are direct members of the group, in enumeration order: a
\* member that is a sub-group is left out and does not stop the run. (Runs
\* stopped by the file system, a missing input file or group, or unequal
\* column lengths are not what the claim is about.)
C3_ExactlyDatasets ==
  (/\ cfg[1].script \in {"group", "merge"}
   /\ Ended(1)
   /\ loc[1].err \notin {"io", "nofile", "nogroup", "shape"}) =>
     /\ loc[1].pc = "done"
     /\ loc[1].handled = DatasetKeys(h5[1], cfg[1].g)

\* The output of the run of instance 1 on a fresh directory.
FreshOut == Run(EmptyDir, 1)[cfg[1].o]

\* C4 as stated: whatever the output file held before (nothing, the content
\* of another run, the result of the same run), after the run it equals the
\* output of a single run on a fresh directory (stated for the runs whose
\* input file exists and which the file system does not stop).
C4_Original ==
  (Ended(1) /\ loc[1].err \notin {"io", "nofile"}) => Out(1) = FreshOut

\* C4 as amended: a run that gets as far as its first write to the output
\* file leaves the output of the same run on a fresh directory, whatever the
\* file held before; a run that fails before that write leaves the file as
\* it was.
C4_Idempotent ==
  (Ended(1) /\ loc[1].err # "io") =>
     IF loc[1].wrote THEN Out(1) = FreshOut ELSE Out(1) = fs0[cfg[1].o]

C4_Witness ==
  /\ At(1, "group", "done")
  /\ loc[1].run = 2
  /\ Len(OutHdus(1)) = 3
  /\ fs0[cfg[1].o] = Out(1)

\* C5: hdf2fits-merge on a group G, root or not, ends with a table in which
\* the column named k holds, element for element, the array of the dataset
\* k that lives under G, for each dataset key k directly under G.
C5_ColumnsOfGroup ==
  At(1, "merge", "done") =>
     LET t == OutHdus(1)[2].cols
         dk == DatasetKeys(h5[1], cfg[1].g) IN
     /\ Len(t) = Len(dk)
     /\ \A j \in 1..Len(t) :
          /\ t[j].name = dk[j]
          /\ t[j].rows = MemberArr(h5[1], cfg[1].g, dk[j]).rows

\* C6: in hdf2fits-merge, if two datasets of the group differ in row count
\* the script fails; the output file is written once, as the last step, so
\* that a run that fails leaves the output file as it was before the run.
C6_MergeAllOrNothing ==
  cfg[1].script = "merge" =>
     /\ (loc[1].pc # "done") => Out(1) = fs0[cfg[1].o]
     /\ (/\ Ended(1)
         /\ GroupFound(1)
         /\ LET dk == DatasetKeys(h5[1], cfg[1].g) IN
            \E j, k \in 1..Len(dk) :
               Len(MemberArr(h5[1], cfg[1].g, dk[j]).rows)
                 # Len(MemberArr(h5[1], cfg[1].g, dk[k]).rows))
        => (loc[1].pc = "failed" /\ Out(1) = fs0[cfg[1].o])

\* C8: a run of hdf2fits-group over a group with dataset keys k1..kn, for
\* any output file name, ends with n+1 HDUs: the empty primary HDU and, as
\* extension i, EXTNAME ki with the array of dataset ki of that group,
\* reversed along axis 0 exactly when the extension is an IMAGE.
C8_GroupResult ==
  At(1, "group", "done") =>
     LET dk == DatasetKeys(h5[1], cfg[1].g) IN
     /\ Len(OutHdus(1)) = Len(dk) + 1
     /\ OutHdus(1)[1].xt = "PRIMARY" /\ NoData(OutHdus(1)[1])
     /\ \A j \in 1..Len(dk) :
          IsExtOf(OutHdus(1)[j + 1], MemberArr(h5[1], cfg[1].g, dk[j]), dk[j])

\* C9: hdf2fits-group cleans nothing up: a run that fails while handling
\* the k-th member leaves the empty primary HDU followed by the extensions
\* of the k-1 members handled before it, in order; a run that fails to open
\* the input file or to find the group leaves the output file untouched.
C9_PartialOutput ==
  At(1, "group", "failed") =>
     IF loc[1].err \in {"nofile", "nogroup"} THEN Out(1) = fs0[cfg[1].o]
     ELSE loc[1].wrote =>
        /\ Len(OutHdus(1)) = loc[1].i
        /\ OutHdus(1)[1].xt = "PRIMARY" /\ NoData(OutHdus(1)[1])
        /\ \A j \in 1..(loc[1].i - 1) : OutHdus(1)[j + 1].extname = loc[1].keys[j]

C7_Interference ==
  \A p \in Procs :
    LET q == CHOOSE r \in Procs : r # p
        own(k) == H5Get(h5[p], k).arr IN
    Out(p).exists =>
      /\ OutHdus(p)[1].xt = "PRIMARY" /\ NoData(OutHdus(p)[1])
      /\ \A j \in 2..Len(OutHdus(p)) :
           LET h == OutHdus(p)[j] IN
           /\ h.extname = loc[p].keys[j - 1]
           /\ \/ IsExtOf(h, own(h.extname), h.extname)
              \/ /\ loc[q].nTemp > 0
                 /\ h.xt = "IMAGE"
                 /\ \/ \E k \in {"x", "y"} : /\ H5Get(h5[q], k).type = "dataset"
                                             /\ IsReversalOf(h.rows, H5Get(h5[q], k).arr.rows)
                    \/ h.rows = own(h.extname).rows

\* An extension of the first instance's output that holds the reversed rows
\* of a dataset of the second instance's input file.
C7_Witness ==
  /\ Len(OutHdus(1)) >= 2
  /\ OutHdus(1)[2].extname = "x"
  /\ Len(h5[2].x.rows) = 2
  /\ IsReversalOf(OutHdus(1)[2].rows, h5[2].x.rows)

====
